---- MODULE Spec2Model ----
(***************************************************************************)
(* Model of detector.py: detection of hiatus in polytonic Greek text.      *)
(*                                                                         *)
(* A text is a sequence of codepoints.  A codepoint is written by a name   *)
(* ("alpha" is U+03B1, "alpha_psili" is U+1F00, "c_dialytika" is U+0308,   *)
(* "LF" is U+000A, "shy" is U+00AD, ...).  The Unicode character database  *)
(* used by the program (combining class, general category, canonical       *)
(* decomposition, lower case, white space) is tabulated below for these    *)
(* codepoints.  Offsets and cluster indices are 0-based as in the program. *)
(***************************************************************************)
EXTENDS Integers, Sequences, FiniteSets, TLC

\* ------------------------------------------------------------------------
\* Bounds of the model
\* ------------------------------------------------------------------------
\* Longest enumerated input, in codepoints.
MaxLen == 4
\* Largest enumerated look-ahead (besides the default one).
MaxK == 3
\* Longest enumerated word of letters with diacritics, in codepoints.
MaxIotaLen == 3

\* ------------------------------------------------------------------------
\* Sequence helpers
\* ------------------------------------------------------------------------
\* Python's s[a:b] for 0 <= a, b (0-based, end exclusive).
Slice(s, a, b) == SubSeq(s, a + 1, IF b > Len(s) THEN Len(s) ELSE b)

\* Python's "x in s" for a sequence s and an element x.
Contains(s, x) == \E k \in 1..Len(s) : s[k] = x

Min(a, b) == IF a < b THEN a ELSE b

\* Python's None where an index is expected.
None == -1

\* ------------------------------------------------------------------------
\* The Unicode character database, for the codepoints of the model
\* ------------------------------------------------------------------------
BaseVowelLetters == {"alpha", "epsilon", "eta", "iota", "omicron", "upsilon", "omega"}
PrecomposedLetters ==
    {"iota_dialytika", "alpha_psili", "alpha_dasia", "alpha_ypogegrammeni",
     "alpha_psili_ypogegrammeni", "upsilon_perispomeni"}
Marks230 == {"c_dialytika", "c_psili", "c_dasia", "c_perispomeni"}

\* unicodedata.combining(ch): the canonical combining class.
combining(ch) ==
    IF ch \in Marks230 THEN 230
    ELSE IF ch = "c_ypogegrammeni" THEN 240
    ELSE 0

\* unicodedata.category(ch), as <<major class, minor class>>.
category(ch) ==
    IF ch \in BaseVowelLetters \cup PrecomposedLetters \cup {"tau", "theta"} THEN <<"L", "l">>
    ELSE IF ch = "Alpha" THEN <<"L", "u">>
    ELSE IF ch \in Marks230 \cup {"c_ypogegrammeni"} THEN <<"M", "n">>
    ELSE IF ch = "one" THEN <<"N", "d">>
    ELSE IF ch = "comma" THEN <<"P", "o">>
    ELSE IF ch = "space" THEN <<"Z", "s">>
    ELSE IF ch = "LF" THEN <<"C", "c">>
    ELSE <<"C", "f">>   \* "shy", U+00AD SOFT HYPHEN

\* str.isspace() of one character.
isspace(ch) == ch \in {"space", "LF"}

\* str.lower() of one character.
lower(ch) == IF ch = "Alpha" THEN "alpha" ELSE ch

\* unicodedata.decomposition(ch): the canonical mapping, <<>> when there is none.
decomposition(ch) ==
    IF ch = "iota_dialytika" THEN <<"iota", "c_dialytika">>
    ELSE IF ch = "alpha_psili" THEN <<"alpha", "c_psili">>
    ELSE IF ch = "alpha_dasia" THEN <<"alpha", "c_dasia">>
    ELSE IF ch = "alpha_ypogegrammeni" THEN <<"alpha", "c_ypogegrammeni">>
    ELSE IF ch = "alpha_psili_ypogegrammeni" THEN <<"alpha_psili", "c_ypogegrammeni">>
    ELSE IF ch = "upsilon_perispomeni" THEN <<"upsilon", "c_perispomeni">>
    ELSE <<>>

\* The primary composite of a starter and a following character, "" when none.
PrimaryComposite(a, b) ==
    IF a = "iota" /\ b = "c_dialytika" THEN "iota_dialytika"
    ELSE IF a = "alpha" /\ b = "c_psili" THEN "alpha_psili"
    ELSE IF a = "alpha" /\ b = "c_dasia" THEN "alpha_dasia"
    ELSE IF a = "alpha" /\ b = "c_ypogegrammeni" THEN "alpha_ypogegrammeni"
    ELSE IF a = "alpha_psili" /\ b = "c_ypogegrammeni" THEN "alpha_psili_ypogegrammeni"
    ELSE IF a = "upsilon" /\ b = "c_perispomeni" THEN "upsilon_perispomeni"
    ELSE ""

\* Canonical ordering: a mark moves left over marks of a greater class.
RECURSIVE InsertOrdered(_, _)
InsertOrdered(acc, ch) ==
    IF combining(ch) = 0 \/ acc = <<>> THEN Append(acc, ch)
    ELSE IF combining(acc[Len(acc)]) = 0 \/ combining(acc[Len(acc)]) <= combining(ch)
         THEN Append(acc, ch)
    ELSE Append(InsertOrdered(SubSeq(acc, 1, Len(acc) - 1), ch), acc[Len(acc)])

\* The full canonical decomposition of one character.
RECURSIVE FullDecomposition(_)
FullDecomposition(ch) ==
    IF decomposition(ch) = <<>> THEN <<ch>>
    ELSE FullDecomposition(decomposition(ch)[1]) \o FullDecomposition(decomposition(ch)[2])

RECURSIVE InsertAllOrdered(_, _)
InsertAllOrdered(acc, d) ==
    IF d = <<>> THEN acc ELSE InsertAllOrdered(InsertOrdered(acc, d[1]), Tail(d))

RECURSIVE DecomposeFrom(_, _, _)
DecomposeFrom(s, k, acc) ==
    IF k > Len(s) THEN acc
    ELSE DecomposeFrom(s, k + 1, InsertAllOrdered(acc, FullDecomposition(s[k])))

\* unicodedata.normalize("NFD", s)
NFD(s) == DecomposeFrom(s, 1, <<>>)

\* unicodedata.normalize("NFKD", s): no codepoint of the model has a
\* compatibility mapping, so the compatibility decomposition is the canonical one.
NFKD(s) == NFD(s)

\* Canonical composition of a decomposed sequence d from position k on: sp is
\* the position in acc of the last starter (0: none), lastcc the combining
\* class of the last character kept after it (-1: none kept).
RECURSIVE ComposeFrom(_, _, _, _, _)
ComposeFrom(d, k, acc, sp, lastcc) ==
    IF k > Len(d) THEN acc
    ELSE LET ch == d[k]
             cc == combining(ch)
             pc2 == IF sp > 0 /\ lastcc < cc THEN PrimaryComposite(acc[sp], ch) ELSE ""
         IN  IF pc2 # ""
             THEN ComposeFrom(d, k + 1, [acc EXCEPT ![sp] = pc2], sp, lastcc)
             ELSE IF cc = 0
                  THEN ComposeFrom(d, k + 1, Append(acc, ch), Len(acc) + 1, -1)
                  ELSE ComposeFrom(d, k + 1, Append(acc, ch), sp, cc)

\* unicodedata.normalize("NFC", s)
NFC(s) == ComposeFrom(NFD(s), 1, <<>>, 0, -1)

\* ------------------------------------------------------------------------
\* Configuration
\* ------------------------------------------------------------------------
\* DIPHTHONGS without its entry for omicron + upsilon.
DIPHTHONGS_NoOmicronUpsilon ==
    { <<"alpha", "iota">>, <<"alpha", "upsilon">>, <<"epsilon", "iota">>,
      <<"epsilon", "upsilon">>, <<"omicron", "iota">>,
      <<"upsilon", "iota">>, <<"omega", "iota">>,
      <<"eta_ypogegrammeni">>, <<"omega_ypogegrammeni">> }

\* The two-letter entries of DIPHTHONGS, as pairs of base letters.  The two
\* one-letter entries (eta and omega with ypogegrammeni) are kept as one-element
\* sequences: no concatenation of two base letters equals them.
DIPHTHONGS ==
    { <<"alpha", "iota">>, <<"alpha", "upsilon">>, <<"epsilon", "iota">>,
      <<"epsilon", "upsilon">>, <<"omicron", "iota">>, <<"omicron", "upsilon">>,
      <<"upsilon", "iota">>, <<"omega", "iota">>,
      <<"eta_ypogegrammeni">>, <<"omega_ypogegrammeni">> }

\* Of the six precomposed letters of the program's set, the one in the model.
PRECOMPOSED_DIAERESIS == {"iota_dialytika"}
COMBINING_DIAERESIS == "c_dialytika"
IOTA_SUBSCRIPT == "c_ypogegrammeni"
BREATHINGS == {"c_psili", "c_dasia"}
\* Of the 36 precomposed letters of the program's set, the two in the model.
PRECOMPOSED_IOTA_SUBS == {<<"alpha_ypogegrammeni">>, <<"alpha_psili_ypogegrammeni">>}
BASE_VOWELS == <<"alpha", "epsilon", "eta", "iota", "omicron", "upsilon", "omega">>
\* The default of max_cluster_lookahead.
DEFAULT_LOOKAHEAD == 8

\* ------------------------------------------------------------------------
\* Grapheme cluster helpers
\* ------------------------------------------------------------------------
\* The inner loop of grapheme_clusters: the first position from k on that is the
\* end of s or holds a character that is not a combining mark.
RECURSIVE SkipCombining(_, _)
SkipCombining(s, k) ==
    IF k < Len(s) /\ combining(s[k + 1]) # 0 THEN SkipCombining(s, k + 1) ELSE k

RECURSIVE ClustersFrom(_, _, _)
ClustersFrom(s, k, acc) ==
    IF k < Len(s)
    THEN LET e == SkipCombining(s, k + 1)
         IN  ClustersFrom(s, e, Append(acc, [text |-> Slice(s, k, e), start |-> k, end |-> e]))
    ELSE acc

grapheme_clusters(s) == ClustersFrom(s, 0, <<>>)

\* The characters of the NFD form of a cluster that are not combining marks.
Bases(cluster_text) ==
    LET nfd == NFD(cluster_text)
    IN  SelectSeq(nfd, LAMBDA c : combining(c) = 0)

\* The first base codepoint (NFD) lowercased, as a string of length 0 or 1.
base_letter(cluster_text) ==
    LET b == Bases(cluster_text)
    IN  IF b = <<>> THEN <<>> ELSE <<lower(b[1])>>

contains_combining_diaeresis(cluster_text) ==
    IF \E k \in 1..Len(cluster_text) : cluster_text[k] \in PRECOMPOSED_DIAERESIS
    THEN TRUE
    ELSE Contains(NFD(cluster_text), COMBINING_DIAERESIS)

contains_iota_subscript(cluster_text) ==
    IF Contains(NFD(cluster_text), IOTA_SUBSCRIPT) THEN TRUE
    ELSE IF Contains(NFKD(cluster_text), IOTA_SUBSCRIPT) THEN TRUE
    ELSE IF \E k \in 1..Len(cluster_text) :
                Contains(decomposition(cluster_text[k]), IOTA_SUBSCRIPT) THEN TRUE
    ELSE IF cluster_text \in PRECOMPOSED_IOTA_SUBS THEN TRUE
    ELSE FALSE

contains_breathing(cluster_text) ==
    LET nfd == NFD(cluster_text)
    IN  \E b \in BREATHINGS : Contains(nfd, b)

is_vowel_cluster(cluster_text) ==
    LET bases == Bases(cluster_text)
    IN  \E k \in 1..Len(bases) : Contains(BASE_VOWELS, lower(bases[k]))

is_punct_or_space_cluster(cluster_text) ==
    \A k \in 1..Len(cluster_text) :
        \/ isspace(cluster_text[k])
        \/ category(cluster_text[k])[1] = "P"
        \/ category(cluster_text[k])[1] = "S"

\* only_punct_space_between(text, a, b) on the text t.
only_punct_space_between(t, a, b) ==
    LET part == Slice(t, a, b)
    IN  \A k \in 1..Len(part) :
            ~(category(part[k])[1] = "L" \/ category(part[k])[1] = "N")

\* text.count("\n", 0, idx)
line_number_at(t, idx) == Cardinality({k \in 1..Min(idx, Len(t)) : t[k] = "LF"})

\* ------------------------------------------------------------------------
\* State
\* ------------------------------------------------------------------------
VARIABLES
    text,                     \* the argument, then its NFC form (line 102)
    treat_iota_as_diphthong,  \* the argument
    max_cluster_lookahead,    \* the argument
    clusters,                 \* the clusters, each with its line
    first_nonpunct,           \* line -> index of its first non-punctuation cluster, or None
    last_nonpunct,            \* line -> index of its last non-punctuation cluster, or None
    occurrences,              \* the list being built
    i,                        \* the index of the outer loop of the scan
    n,                        \* the number of occurrences expanded so far
    pc                        \* "call", "scan", "expand", "done"

vars == <<text, treat_iota_as_diphthong, max_cluster_lookahead, clusters,
          first_nonpunct, last_nonpunct, occurrences, i, n, pc>>

\* Cluster idx (0-based).
Cl(idx) == clusters[idx + 1]

\* dict.get(ln): None for a missing key.
Get(d, ln) == IF ln \in DOMAIN d THEN d[ln] ELSE None

\* ------------------------------------------------------------------------
\* Line index (lines 110-128)
\* ------------------------------------------------------------------------
\* The loop over the clusters of line ln among the clusters cl, from cluster idx
\* on: <<first, last>>.
RECURSIVE FirstLastFrom(_, _, _, _, _)
FirstLastFrom(cl, ln, idx, first, last) ==
    IF idx >= Len(cl) THEN <<first, last>>
    ELSE IF cl[idx + 1].line # ln \/ is_punct_or_space_cluster(cl[idx + 1].text)
         THEN FirstLastFrom(cl, ln, idx + 1, first, last)
    ELSE FirstLastFrom(cl, ln, idx + 1, IF first = None THEN idx ELSE first, idx)

LineIndex(cl, ln) == FirstLastFrom(cl, ln, 0, None, None)

\* ------------------------------------------------------------------------
\* Core detection: the scan from one vowel cluster (lines 134-194)
\* ------------------------------------------------------------------------
\* ScanLimit with a window one cluster too long.
ScanLimit_OneMore(idx) == Min(idx + 2 + max_cluster_lookahead, Len(clusters))

\* The end (exclusive) of the range of j for the start cluster idx (line 134).
ScanLimit(idx) == Min(idx + 1 + max_cluster_lookahead, Len(clusters))

Intervening(a, b) == Slice(text, Cl(a).end, Cl(b).start)

\* Kind without the test first_idx == j of line 147.
Kind_NoFirstCheck(a, b) ==
    LET intervening == Intervening(a, b)
    IN  IF Contains(intervening, "LF")
        THEN IF Cl(b).line = Cl(a).line + 1
             THEN LET last_idx == Get(last_nonpunct, Cl(a).line)
                      first_idx == Get(first_nonpunct, Cl(b).line)
                  IN  IF last_idx # None /\ first_idx # None /\ last_idx = a
                      THEN "across-line"
                      ELSE "None"
             ELSE "None"
        ELSE IF intervening = <<>>
             THEN "intra-word"
        ELSE IF only_punct_space_between(text, Cl(a).end, Cl(b).start) /\ Cl(a).line = Cl(b).line
             THEN "interword"
        ELSE "None"

\* Kind without the test last_idx == i of line 147.
Kind_NoLastCheck(a, b) ==
    LET intervening == Intervening(a, b)
    IN  IF Contains(intervening, "LF")
        THEN IF Cl(b).line = Cl(a).line + 1
             THEN LET last_idx == Get(last_nonpunct, Cl(a).line)
                      first_idx == Get(first_nonpunct, Cl(b).line)
                  IN  IF last_idx # None /\ first_idx # None /\ first_idx = b
                      THEN "across-line"
                      ELSE "None"
             ELSE "None"
        ELSE IF intervening = <<>>
             THEN "intra-word"
        ELSE IF only_punct_space_between(text, Cl(a).end, Cl(b).start) /\ Cl(a).line = Cl(b).line
             THEN "interword"
        ELSE "None"

\* Lines 141-158: the kind of the pair (a, b), "None" when it is not a hiatus context.
Kind(a, b) ==
    LET intervening == Intervening(a, b)
    IN  IF Contains(intervening, "LF")
        THEN IF Cl(b).line = Cl(a).line + 1
             THEN LET last_idx == Get(last_nonpunct, Cl(a).line)
                      first_idx == Get(first_nonpunct, Cl(b).line)
                  IN  IF last_idx # None /\ first_idx # None /\ last_idx = a /\ first_idx = b
                      THEN "across-line"
                      ELSE "None"
             ELSE "None"
        ELSE IF intervening = <<>>
             THEN "intra-word"
        ELSE IF only_punct_space_between(text, Cl(a).end, Cl(b).start) /\ Cl(a).line = Cl(b).line
             THEN "interword"
        ELSE "None"

\* IsDiph without the diaeresis override of lines 173-174.
IsDiph_NoDiaeresisOverride(kind, a, b) ==
    IF kind = "intra-word"
    THEN LET pair == base_letter(Cl(a).text) \o base_letter(Cl(b).text)
             d1 == pair \in DIPHTHONGS
             d2 == IF treat_iota_as_diphthong
                      /\ (contains_iota_subscript(Cl(a).text) \/ contains_iota_subscript(Cl(b).text))
                   THEN TRUE ELSE d1
             d4 == IF contains_breathing(Cl(a).text) THEN FALSE ELSE d2
         IN  d4
    ELSE FALSE

\* IsDiph with the breathing override of lines 175-176 setting is_diph to True.
IsDiph_BreathingSuppresses(kind, a, b) ==
    IF kind = "intra-word"
    THEN LET pair == base_letter(Cl(a).text) \o base_letter(Cl(b).text)
             d1 == pair \in DIPHTHONGS
             d2 == IF treat_iota_as_diphthong
                      /\ (contains_iota_subscript(Cl(a).text) \/ contains_iota_subscript(Cl(b).text))
                   THEN TRUE ELSE d1
             d3 == IF contains_combining_diaeresis(Cl(b).text) THEN FALSE ELSE d2
             d4 == IF contains_breathing(Cl(a).text) THEN TRUE ELSE d3
         IN  d4
    ELSE FALSE

\* Lines 164-176: is_diph for the pair (a, b) of the given kind.
IsDiph(kind, a, b) ==
    IF kind = "intra-word"
    THEN LET pair == base_letter(Cl(a).text) \o base_letter(Cl(b).text)
             d1 == pair \in DIPHTHONGS
             d2 == IF treat_iota_as_diphthong
                      /\ (contains_iota_subscript(Cl(a).text) \/ contains_iota_subscript(Cl(b).text))
                   THEN TRUE ELSE d1
             d3 == IF contains_combining_diaeresis(Cl(b).text) THEN FALSE ELSE d2
             d4 == IF contains_breathing(Cl(a).text) THEN FALSE ELSE d3
         IN  d4
    ELSE FALSE

\* Lines 181-193: the occurrence recorded for the pair (a, b).
Occurrence(kind, a, b) ==
    [ kind |-> kind,
      start_pos |-> Cl(a).start,
      end_pos |-> Cl(b).end,
      snippet |-> Slice(text, Cl(a).start, Cl(b).end),
      cluster_i_text |-> Cl(a).text,
      cluster_j_text |-> Cl(b).text,
      line_i |-> Cl(a).line + 1,
      line_j |-> Cl(b).line + 1,
      i_index |-> a,
      j_index |-> b,
      intervening |-> Intervening(a, b) ]

\* ScanInner pairing the start cluster with every vowel of the window: no test
\* of the kind (line 160) and no break (lines 179, 194).
RECURSIVE ScanInner_EveryVowel(_, _)
ScanInner_EveryVowel(a, j) ==
    IF j >= ScanLimit(a) THEN <<>>
    ELSE IF ~is_vowel_cluster(Cl(j).text) THEN ScanInner_EveryVowel(a, j + 1)
    ELSE <<Occurrence(Kind(a, j), a, j)>> \o ScanInner_EveryVowel(a, j + 1)

\* ScanInner without the vowel test of lines 136-137.
RECURSIVE ScanInner_NoVowelTest(_, _)
ScanInner_NoVowelTest(a, j) ==
    IF j >= ScanLimit(a) THEN <<>>
    ELSE LET kind == Kind(a, j)
         IN  IF kind = "None" THEN ScanInner_NoVowelTest(a, j + 1)
             ELSE IF IsDiph(kind, a, j) THEN <<>>
             ELSE <<Occurrence(kind, a, j)>>

\* The inner loop from j on, for the start cluster a: the occurrences it appends.
RECURSIVE ScanInner(_, _)
ScanInner(a, j) ==
    IF j >= ScanLimit(a) THEN <<>>
    ELSE IF ~is_vowel_cluster(Cl(j).text) THEN ScanInner(a, j + 1)
    ELSE LET kind == Kind(a, j)
         IN  IF kind = "None" THEN ScanInner(a, j + 1)
             ELSE IF IsDiph(kind, a, j) THEN <<>>
             ELSE <<Occurrence(kind, a, j)>>

\* ------------------------------------------------------------------------
\* Span expansion (lines 196-233)
\* ------------------------------------------------------------------------
safe_base(idx) ==
    IF 0 <= idx /\ idx < Len(clusters) THEN base_letter(Cl(idx).text) ELSE <<>>

\* [k for k in s if k != x]
Without(s, x) == SelectSeq(s, LAMBDA k : k # x)

Elems(s) == {s[k] : k \in 1..Len(s)}

\* ExpandSpans with line 215 assigning [i_idx, i_idx + 1], as line 211 does.
ExpandSpans_Line211Twice(occ) ==
    LET i_idx == occ.i_index
        j_idx == occ.j_index
        vi1 == IF i_idx + 1 < j_idx /\ (safe_base(i_idx) \o safe_base(i_idx + 1)) \in DIPHTHONGS
               THEN <<i_idx, i_idx + 1>> ELSE <<i_idx>>
        vi2 == IF i_idx - 1 >= 0 /\ (safe_base(i_idx - 1) \o safe_base(i_idx)) \in DIPHTHONGS
               THEN <<i_idx, i_idx + 1>> ELSE vi1
        vj1 == IF j_idx - 1 > i_idx /\ (safe_base(j_idx - 1) \o safe_base(j_idx)) \in DIPHTHONGS
               THEN <<j_idx - 1, j_idx>> ELSE <<j_idx>>
        vj2 == IF j_idx + 1 < Len(clusters)
                  /\ (safe_base(j_idx) \o safe_base(j_idx + 1)) \in DIPHTHONGS
                  /\ j_idx + 1 > i_idx
               THEN Append(vj1, j_idx + 1) ELSE vj1
    IN  IF Elems(vi2) \cap Elems(vj2) # {}
        THEN <<(<<i_idx>>), Without(vj2, i_idx)>>
        ELSE <<vi2, vj2>>

\* Lines 203-228: <<vowel_i_indices, vowel_j_indices>> of an occurrence.
ExpandSpans(occ) ==
    LET i_idx == occ.i_index
        j_idx == occ.j_index
        vi1 == IF i_idx + 1 < j_idx /\ (safe_base(i_idx) \o safe_base(i_idx + 1)) \in DIPHTHONGS
               THEN <<i_idx, i_idx + 1>> ELSE <<i_idx>>
        vi2 == IF i_idx - 1 >= 0 /\ (safe_base(i_idx - 1) \o safe_base(i_idx)) \in DIPHTHONGS
               THEN <<i_idx - 1, i_idx>> ELSE vi1
        vj1 == IF j_idx - 1 > i_idx /\ (safe_base(j_idx - 1) \o safe_base(j_idx)) \in DIPHTHONGS
               THEN <<j_idx - 1, j_idx>> ELSE <<j_idx>>
        vj2 == IF j_idx + 1 < Len(clusters)
                  /\ (safe_base(j_idx) \o safe_base(j_idx + 1)) \in DIPHTHONGS
                  /\ j_idx + 1 > i_idx
               THEN Append(vj1, j_idx + 1) ELSE vj1
    IN  IF Elems(vi2) \cap Elems(vj2) # {}
        THEN <<(<<i_idx>>), Without(vj2, i_idx)>>
        ELSE <<vi2, vj2>>

RECURSIVE JoinTexts(_)
JoinTexts(idxs) ==
    IF idxs = <<>> THEN <<>> ELSE Cl(idxs[1]).text \o JoinTexts(Tail(idxs))

\* Lines 230-233: the occurrence with its spans.
Expanded(occ) ==
    LET sp == ExpandSpans(occ)
    IN  occ @@ [ vowel_i_indices |-> sp[1],
                 vowel_j_indices |-> sp[2],
                 vowel_i_text |-> JoinTexts(sp[1]),
                 vowel_j_text |-> JoinTexts(sp[2]) ]

\* ------------------------------------------------------------------------
\* Inputs
\* ------------------------------------------------------------------------
\* The codepoints the enumerated inputs are made of.
Alphabet == {"alpha", "iota", "iota_dialytika", "alpha_psili", "tau", "comma", "LF", "shy"}

Texts == UNION {[1..len -> Alphabet] : len \in 0..MaxLen}

\* Words with letters that bear an iota subscript, for the flag.
IotaAlphabet == {"alpha", "iota", "alpha_ypogegrammeni", "iota_dialytika", "alpha_psili"}

IotaTexts == UNION {[1..len -> IotaAlphabet] : len \in 0..MaxIotaLen}

\* Longer inputs and inputs with the other codepoints.
ExampleTexts ==
    { <<"theta", "epsilon", "omicron", "upsilon_perispomeni">>,
      <<"theta", "epsilon", "omicron", "upsilon", "c_perispomeni">>,
      <<"alpha", "tau", "alpha", "space", "alpha">>,
      <<"alpha", "tau", "alpha", "LF", "alpha">>,
      <<"alpha", "iota", "space", "alpha", "iota">>,
      <<"alpha", "comma", "space", "LF", "space", "comma", "iota">>,
      <<"Alpha", "iota", "one", "alpha">>,
      <<"alpha_ypogegrammeni", "alpha", "c_ypogegrammeni", "alpha">>,
      <<"alpha", "c_dialytika", "iota", "c_dialytika", "comma", "c_dialytika", "alpha">>,
      <<"c_dialytika", "alpha", "c_ypogegrammeni", "c_psili", "iota">>,
      <<"alpha", "c_dasia", "iota", "LF", "c_psili", "alpha">> }

\* ------------------------------------------------------------------------
\* detect_hiatus_in_text
\* ------------------------------------------------------------------------
\* Where control is once the expansion loop has handled done occurrences of occs.
AfterExpand(done, occs) == IF done < Len(occs) THEN "expand" ELSE "done"

\* Where control is once the scan loop has reached index idx of the clusters cl.
AfterScan(idx, cl, occs) == IF idx < Len(cl) THEN "scan" ELSE AfterExpand(0, occs)

\* Lines 107-108: every cluster of gc with the number of its line in t.
WithLines(t, gc) ==
    [k \in 1..Len(gc) |-> gc[k] @@ [line |-> line_number_at(t, gc[k].start)]]

Init ==
    /\ \/ /\ text \in Texts
          /\ max_cluster_lookahead \in 1..MaxK
          /\ treat_iota_as_diphthong = FALSE
       \/ /\ text \in IotaTexts \cup ExampleTexts
          /\ max_cluster_lookahead \in {1, DEFAULT_LOOKAHEAD}
          /\ treat_iota_as_diphthong \in BOOLEAN
    /\ clusters = <<>>
    /\ first_nonpunct = <<>>
    /\ last_nonpunct = <<>>
    /\ occurrences = <<>>
    /\ i = 0
    /\ n = 0
    /\ pc = "call"

\* Lines 102-128: normalise, segment, number the lines, and index the first and
\* last non-punctuation cluster of every line.
Prepare ==
    /\ pc = "call"
    /\ \E t \in {NFC(text)} : \E cl \in {WithLines(t, grapheme_clusters(t))} :
          \E lines \in {{cl[k].line : k \in 1..Len(cl)}} :
           /\ text' = t
           /\ clusters' = cl
           /\ first_nonpunct' = [ln \in lines |-> LineIndex(cl, ln)[1]]
           /\ last_nonpunct' = [ln \in lines |-> LineIndex(cl, ln)[2]]
           /\ pc' = AfterScan(0, cl, <<>>)
    /\ UNCHANGED <<treat_iota_as_diphthong, max_cluster_lookahead, occurrences, i, n>>

\* Lines 131-133: a cluster that is no vowel starts no scan.
ScanSkip ==
    /\ pc = "scan"
    /\ ~is_vowel_cluster(Cl(i).text)
    /\ i' = i + 1
    /\ pc' = AfterScan(i + 1, clusters, occurrences)
    /\ UNCHANGED <<text, treat_iota_as_diphthong, max_cluster_lookahead, clusters,
                   first_nonpunct, last_nonpunct, occurrences, n>>

\* Lines 131-194: the scan from the vowel cluster i.
ScanVowel ==
    /\ pc = "scan"
    /\ is_vowel_cluster(Cl(i).text)
    /\ occurrences' = occurrences \o ScanInner(i, i + 1)
    /\ i' = i + 1
    /\ pc' = AfterScan(i + 1, clusters, occurrences')
    /\ UNCHANGED <<text, treat_iota_as_diphthong, max_cluster_lookahead, clusters,
                   first_nonpunct, last_nonpunct, n>>

\* Lines 202-233: one iteration of the expansion loop.
Expand ==
    /\ pc = "expand"
    /\ occurrences' = [occurrences EXCEPT ![n + 1] = Expanded(occurrences[n + 1])]
    /\ n' = n + 1
    /\ pc' = AfterExpand(n + 1, occurrences)
    /\ UNCHANGED <<text, treat_iota_as_diphthong, max_cluster_lookahead, clusters,
                   first_nonpunct, last_nonpunct, i>>

Next ==
    \/ Prepare
    \/ ScanSkip
    \/ ScanVowel
    \/ Expand

Spec == Init /\ [][Next]_vars

\* ------------------------------------------------------------------------
\* Properties
\* ------------------------------------------------------------------------
ClusterIdx == 0..(Len(clusters) - 1)
OccIdx == 1..Len(occurrences)

IsVowelAt(k) == is_vowel_cluster(Cl(k).text)
IsPunctAt(k) == is_punct_or_space_cluster(Cl(k).text)

\* detect_hiatus_in_text has returned: occurrences is the list it returns.
Returned == pc = "done"

\* Some occurrence has i_index = a.
RecordedFrom(a) == \E m \in OccIdx : occurrences[m].i_index = a

\* The occurrence (a, b) of the given kind is recorded.
Recorded(a, b, kind) ==
    \E m \in OccIdx :
        /\ occurrences[m].i_index = a
        /\ occurrences[m].j_index = b
        /\ occurrences[m].kind = kind

\* The eight two-letter diphthongs the claims name.
EightDiphthongs ==
    { <<"alpha", "iota">>, <<"alpha", "upsilon">>, <<"epsilon", "iota">>,
      <<"epsilon", "upsilon">>, <<"omicron", "iota">>, <<"omicron", "upsilon">>,
      <<"upsilon", "iota">>, <<"omega", "iota">> }

CarriesDiaeresis(k) == Contains(NFD(Cl(k).text), "c_dialytika")
CarriesBreathing(k) == Contains(NFD(Cl(k).text), "c_psili") \/ Contains(NFD(Cl(k).text), "c_dasia")

\* Clusters a and a + 1 are vowel clusters whose base-letter pair is one of the eight.
AdjacentDiphthongPair(a) ==
    /\ a + 1 < Len(clusters)
    /\ IsVowelAt(a)
    /\ IsVowelAt(a + 1)
    /\ (base_letter(Cl(a).text) \o base_letter(Cl(a + 1).text)) \in EightDiphthongs

\* C1 as stated: for directly adjacent vowel clusters whose base-letter pair is
\* one of the eight diphthongs, an occurrence from the first is recorded if and
\* only if the second carries a diaeresis.
C1_AsStated ==
    Returned => \A a \in ClusterIdx :
        AdjacentDiphthongPair(a)
            => (RecordedFrom(a) <=> CarriesDiaeresis(a + 1))

\* C1 amended: for directly adjacent vowel clusters whose base-letter pair is
\* one of the eight diphthongs, an occurrence from the first is recorded if and
\* only if the second carries a diaeresis or the first carries a breathing.
C1_DiphthongSuppression ==
    Returned => \A a \in ClusterIdx :
        AdjacentDiphthongPair(a)
            => (RecordedFrom(a) <=> (CarriesDiaeresis(a + 1) \/ CarriesBreathing(a)))

\* A diphthong pair without breathing whose second cluster carries a diaeresis
\* is recorded, and in the same text one without diaeresis is not.
C1_Witness ==
    \E a, b \in ClusterIdx :
        /\ Returned
        /\ AdjacentDiphthongPair(a) /\ AdjacentDiphthongPair(b)
        /\ ~CarriesBreathing(a) /\ ~CarriesBreathing(b)
        /\ CarriesDiaeresis(a + 1) /\ Recorded(a, a + 1, "intra-word")
        /\ ~CarriesDiaeresis(b + 1) /\ ~RecordedFrom(b)

\* C2 as stated: a vowel cluster with a breathing that is directly followed by a
\* vowel cluster starts no occurrence.
C2_AsStated ==
    Returned => \A a \in ClusterIdx :
        (a + 1 < Len(clusters) /\ IsVowelAt(a) /\ IsVowelAt(a + 1)
            /\ CarriesBreathing(a))
            => ~RecordedFrom(a)

\* C2 amended: a vowel cluster with a breathing that is directly followed by a
\* vowel cluster always starts an intra-word occurrence with that cluster,
\* whatever the base-letter pair, the diaeresis of the second and the flag.
C2_BreathingRecords ==
    Returned => \A a \in ClusterIdx :
        (a + 1 < Len(clusters) /\ IsVowelAt(a) /\ IsVowelAt(a + 1)
            /\ CarriesBreathing(a))
            => Recorded(a, a + 1, "intra-word")

\* A diphthong pair whose first cluster carries a breathing and whose second
\* carries no diaeresis is recorded.
C2_Witness ==
    \E a \in ClusterIdx :
        /\ Returned
        /\ AdjacentDiphthongPair(a)
        /\ CarriesBreathing(a)
        /\ ~CarriesDiaeresis(a + 1)
        /\ Recorded(a, a + 1, "intra-word")

\* Cluster a is the last cluster of its line that is not punctuation or space.
LastOfItsLine(a) ==
    /\ ~IsPunctAt(a)
    /\ \A k \in ClusterIdx : (k > a /\ Cl(k).line = Cl(a).line) => IsPunctAt(k)

\* Cluster b is the first cluster of its line that is not punctuation or space.
FirstOfItsLine(b) ==
    /\ ~IsPunctAt(b)
    /\ \A k \in ClusterIdx : (k < b /\ Cl(k).line = Cl(b).line) => IsPunctAt(k)

\* The text between clusters a and b holds a newline.
NewlineBetween(a, b) ==
    \E k \in (Cl(a).end + 1)..Cl(b).start : text[k] = "LF"

\* C3: for vowel clusters a < b with b in the look-ahead window of a and a
\* newline between them, the across-line occurrence (a, b) is recorded if and
\* only if b is on the line after a's, a is the last non-punctuation cluster of
\* its line and b the first non-punctuation cluster of its line.
C3_AcrossLine ==
    Returned => \A a, b \in ClusterIdx :
        (/\ a < b /\ b <= a + max_cluster_lookahead
         /\ IsVowelAt(a) /\ IsVowelAt(b)
         /\ NewlineBetween(a, b))
            => (Recorded(a, b, "across-line")
                    <=> (/\ Cl(b).line = Cl(a).line + 1
                         /\ LastOfItsLine(a)
                         /\ FirstOfItsLine(b)))

\* An across-line occurrence is recorded over punctuation that trails the
\* line-final vowel.
C3_Witness ==
    \E m \in OccIdx :
        /\ Returned
        /\ occurrences[m].kind = "across-line"
        /\ occurrences[m].j_index >= occurrences[m].i_index + 3
        /\ Cl(occurrences[m].i_index + 1).line = Cl(occurrences[m].i_index).line

\* C4: no two occurrences have the same i_index.
C4_OnePerStart ==
    \A m1, m2 \in OccIdx :
        occurrences[m1].i_index = occurrences[m2].i_index => m1 = m2

\* The scan from a start cluster has passed the vowel it was paired with and
\* still had vowels in its window; two start clusters have an occurrence each.
C4_Witness ==
    /\ Returned
    /\ Len(occurrences) >= 2
    /\ \E m \in OccIdx : \E b \in ClusterIdx :
          /\ b > occurrences[m].j_index
          /\ b <= occurrences[m].i_index + max_cluster_lookahead
          /\ IsVowelAt(b)

\* C5: every occurrence has 0 <= i_index < j_index < number of clusters, and
\* both clusters are vowel clusters.
C5_Indices ==
    \A m \in OccIdx :
        /\ 0 <= occurrences[m].i_index
        /\ occurrences[m].i_index < occurrences[m].j_index
        /\ occurrences[m].j_index < Len(clusters)
        /\ IsVowelAt(occurrences[m].i_index)
        /\ IsVowelAt(occurrences[m].j_index)

\* An occurrence ends at the last cluster of the text.
C5_Witness ==
    /\ Returned
    /\ \E m \in OccIdx : occurrences[m].j_index = Len(clusters) - 1

\* C6: every occurrence has j_index - i_index <= K; with K = 1 every occurrence
\* pairs directly adjacent clusters, so none is interword or across-line.
C6_Lookahead ==
    \A m \in OccIdx :
        /\ occurrences[m].j_index - occurrences[m].i_index <= max_cluster_lookahead
        /\ max_cluster_lookahead = 1
              => (/\ occurrences[m].j_index = occurrences[m].i_index + 1
                  /\ occurrences[m].kind = "intra-word")

\* With K = 1 a vowel, one punctuation cluster and a vowel on one line give no
\* occurrence.
C6_Witness ==
    /\ Returned
    /\ max_cluster_lookahead = 1
    /\ \E a \in ClusterIdx :
          /\ a + 2 < Len(clusters)
          /\ IsVowelAt(a) /\ IsPunctAt(a + 1) /\ IsVowelAt(a + 2)
          /\ Cl(a).line = Cl(a + 2).line
          /\ ~RecordedFrom(a)

\* The word theta, epsilon, omicron, upsilon with perispomeni, in NFC.
Theou == <<"theta", "epsilon", "omicron", "upsilon_perispomeni">>

TheouReturned ==
    /\ Returned
    /\ text = Theou
    /\ max_cluster_lookahead = DEFAULT_LOOKAHEAD
    /\ treat_iota_as_diphthong = FALSE

\* C7 as stated: on the word theou alone, with the default K and the flag off,
\* the returned list is empty.
C7_AsStated == TheouReturned => occurrences = <<>>

\* C7 amended: on the word theou alone, with the default K and the flag off,
\* the returned list holds exactly one occurrence, the intra-word hiatus of
\* epsilon (cluster 1) and omicron (cluster 2); omicron and upsilon give none.
C7_Theou ==
    TheouReturned =>
        /\ Len(occurrences) = 1
        /\ occurrences[1].kind = "intra-word"
        /\ occurrences[1].i_index = 1
        /\ occurrences[1].j_index = 2

C7_Witness == TheouReturned /\ Len(occurrences) = 1

\* The occurrences that the expansion loop has handled.
ExpandedIdx == IF pc \in {"expand", "done"} THEN 1..n ELSE {}

C8_Spans ==
    \A m \in ExpandedIdx :
        LET occ == occurrences[m]
            vi == occ.vowel_i_indices
            vj == occ.vowel_j_indices
        IN  /\ Elems(vi) \cap Elems(vj) = {}
            /\ occ.i_index \in Elems(vi)
            /\ occ.j_index \in Elems(vj)
            /\ \A x \in Elems(vi) : \A y \in Elems(vj) : x < y
            /\ vi \in {<<occ.i_index>>, <<occ.i_index - 1, occ.i_index>>}
            /\ vj \in {<<occ.j_index>>, <<occ.j_index, occ.j_index + 1>>}

C8_Preserved ==
    pc = "expand" =>
        /\ Len(occurrences') = Len(occurrences)
        /\ \A m \in OccIdx :
              /\ occurrences'[m].kind = occurrences[m].kind
              /\ occurrences'[m].i_index = occurrences[m].i_index
              /\ occurrences'[m].j_index = occurrences[m].j_index

\* C8: the spans of an expanded occurrence are disjoint, the left one is [i] or
\* [i-1, i], the right one is [j] or [j, j+1], so the left one holds i_index, the
\* right one holds j_index and every left index is below every right index; and
\* a step of the expansion keeps the number of occurrences and the kind, i_index
\* and j_index of each.
C8_SpanExpansion == []C8_Spans /\ [][C8_Preserved]_vars

\* An expanded occurrence whose left span is [i-1, i] and whose right span is
\* [j, j+1].
C8_Witness ==
    \E m \in ExpandedIdx :
        /\ Returned
        /\ Len(occurrences[m].vowel_i_indices) = 2
        /\ Len(occurrences[m].vowel_j_indices) = 2

\* C9: no cluster strictly between the two clusters of an occurrence is a vowel
\* cluster.
C9_NearestVowel ==
    \A m \in OccIdx :
        \A k \in ClusterIdx :
            (occurrences[m].i_index < k /\ k < occurrences[m].j_index) => ~IsVowelAt(k)

\* The scan from a went past a vowel whose gap is no hiatus context, met a
\* further vowel in its window, and recorded nothing for a.
C9_Witness ==
    \E a, b1, b2 \in ClusterIdx :
        /\ Returned
        /\ a < b1 /\ b1 < b2 /\ b2 <= a + max_cluster_lookahead
        /\ IsVowelAt(a) /\ IsVowelAt(b1) /\ IsVowelAt(b2)
        /\ \A k \in ClusterIdx : (a < k /\ k < b1) => ~IsVowelAt(k)
        /\ b1 > a + 1
        /\ \E k \in ClusterIdx : a < k /\ k < b1 /\ ~IsPunctAt(k)
        /\ ~RecordedFrom(a)

\* C10 as stated: the kind of an occurrence is intra-word exactly when the text
\* between its clusters is empty (j_index = i_index + 1), across-line exactly
\* when that text holds a newline, and interword exactly when that text is not
\* empty, holds no newline, the two clusters are on one line and every cluster
\* strictly between them is made of punctuation, symbol or whitespace
\* characters only.
C10_AsStated ==
    \A m \in OccIdx :
        LET occ == occurrences[m]
            a == occ.i_index
            b == occ.j_index
        IN  /\ occ.kind \in {"intra-word", "interword", "across-line"}
            /\ (occ.kind = "intra-word") <=> (occ.intervening = <<>> /\ b = a + 1)
            /\ (occ.kind = "across-line") <=> Contains(occ.intervening, "LF")
            /\ (occ.kind = "interword")
                   <=> (/\ occ.intervening # <<>>
                        /\ ~Contains(occ.intervening, "LF")
                        /\ Cl(a).line = Cl(b).line
                        /\ \A k \in ClusterIdx : (a < k /\ k < b) => IsPunctAt(k))

====
